---- MODULE Spec2Model ----
(***************************************************************************)
(* PyApple: the dual-mode calling facade (pyapple/client.py, class Client) *)
(* and the typed response normalisation (pyapple/client.py HALFTIME,       *)
(* pyapple/src/ipsw.py, pyapple/interface/ios.py).                         *)
(*                                                                         *)
(* Three specifications share the variables:                               *)
(*   Spec      the facade: threads, event loops, clients and calls;        *)
(*   NormSpec  the operations applied to the payload object the Transport  *)
(*             hands back;                                                 *)
(*   DateSpec  to_dt applied to one timestamp input.                       *)
(*                                                                         *)
(* Python values are tagged records:                                       *)
(*   [t |-> "none"]                       None                             *)
(*   [t |-> "str",  s |-> <<"a","b">>]    a str, one character per element *)
(*   [t |-> "int",  n |-> 1000]           an int                           *)
(*   [t |-> "bool", b |-> TRUE]           a bool                           *)
(*   [t |-> "list", l |-> <<v1, v2>>]     a list                           *)
(*   [t |-> "map",  f |-> [k |-> v]]      a dict with str keys             *)
(*   [t |-> "obj",  cls |-> "IPSW", f |-> [k |-> v]]  a dataclass instance *)
(*   [t |-> "dt", year, month, day, hour, minute, second, tz]  a datetime  *)
(* The outcome of a call is [kind |-> "ok", val |-> v] or                  *)
(* [kind |-> "raise", exc |-> "ValueError"].                               *)
(***************************************************************************)
EXTENDS Integers, Sequences, FiniteSets, TLC

VARIABLES
    \* ---- Spec: the facade
    nLoops,       \* event loops constructed so far (their ids are 1..nLoops)
    loopRunning,  \* loop id -> the thread driving it, or "idle"
    loopClosed,   \* loop id -> whether it has been closed
    loopDriver,   \* loop id -> who drives it: "none", "asyncio.run", "run_forever", "client"
    threadLoop,   \* thread -> the loop its policy holds as current (0: none is set)
    clients,      \* sequence of Client instances: [loop, acquired]
    calls,        \* sequence of invocations of an operation through a Client
    threadCall,   \* thread -> the call it is inside synchronously (0: none)
    \* ---- NormSpec: one operation against the Transport's payload object
    opcall,       \* the operation invoked and its arguments: [name, a, b]
    payload,      \* the payload object the Transport holds, as it is now
    sent,         \* the payload as it was when the Transport first handed it back
    request,      \* what the operation asked the Transport for
    outcome,      \* the outcome of the latest invocation
    prev,         \* the outcome of the invocation before it
    ncalls,       \* invocations made against this payload
    sameObject,   \* whether the latest invocation was handed the same object again
    \* ---- DateSpec
    dtIn,         \* the value handed to to_dt
    dtOut         \* the outcome of to_dt (kind "idle": not applied yet)

facadeVars == <<nLoops, loopRunning, loopClosed, loopDriver, threadLoop, clients, calls, threadCall>>

normVars == <<opcall, payload, sent, request, outcome, prev, ncalls, sameObject>>

dateVars == <<dtIn, dtOut>>

vars == <<facadeVars, normVars, dateVars>>

(***************************************************************************)
(* Values                                                                  *)
(***************************************************************************)
None == [t |-> "none"]

Str(chars) == [t |-> "str", s |-> chars]

PyInt(n) == [t |-> "int", n |-> n]

Bool(b) == [t |-> "bool", b |-> b]

List(l) == [t |-> "list", l |-> l]

Map(f) == [t |-> "map", f |-> f]

Obj(cls, f) == [t |-> "obj", cls |-> cls, f |-> f]

Ok(v) == [kind |-> "ok", val |-> v]

Raise(e) == [kind |-> "raise", exc |-> e]

Idle == [kind |-> "idle"]

(***************************************************************************)
(* strptime, as to_dt uses it: datetime.strptime(time, "%Y-%m-%dT%H:%M:%SZ") then               *)
(* replace(tzinfo=tzutc()).  strptime compiles the format to the regular   *)
(* expression                                                              *)
(*   (?P<Y>\d\d\d\d)-(?P<m>1[0-2]|0[1-9]|[1-9])-                           *)
(*   (?P<d>3[0-1]|[1-2]\d|0[1-9]|[1-9]| [1-9])T(?P<H>2[0-3]|[0-1]\d|\d):   *)
(*   (?P<M>[0-5]\d|\d):(?P<S>6[0-1]|[0-5]\d|\d)Z      with re.IGNORECASE,  *)
(* matches it at the start of the string, raises ValueError when it does   *)
(* not match or when characters remain after the match, and then builds    *)
(* the datetime, whose constructor raises ValueError for year 0, a day     *)
(* past the month's end, or second 60/61.                                  *)
(***************************************************************************)
Digits == <<"0", "1", "2", "3", "4", "5", "6", "7", "8", "9">>

IsDigit(c) == \E i \in 1..10 : Digits[i] = c

DigitVal(c) == (CHOOSE i \in 1..10 : Digits[i] = c) - 1

InRange(c, lo, hi) == IsDigit(c) /\ DigitVal(c) >= lo /\ DigitVal(c) <= hi

RECURSIVE NumVal(_)
NumVal(f) ==
    IF f = <<>> THEN 0
    ELSE 10 * NumVal(SubSeq(f, 1, Len(f) - 1))
         + (IF IsDigit(f[Len(f)]) THEN DigitVal(f[Len(f)]) ELSE 0)

\* %Y : \d\d\d\d
ReYear(f) == Len(f) = 4 /\ \A i \in 1..4 : IsDigit(f[i])

\* %m : 1[0-2]|0[1-9]|[1-9]
ReMonth(f) ==
    \/ Len(f) = 2 /\ f[1] = "1" /\ InRange(f[2], 0, 2)
    \/ Len(f) = 2 /\ f[1] = "0" /\ InRange(f[2], 1, 9)
    \/ Len(f) = 1 /\ InRange(f[1], 1, 9)

\* %d : 3[0-1]|[1-2]\d|0[1-9]|[1-9]| [1-9]
ReDay(f) ==
    \/ Len(f) = 2 /\ f[1] = "3" /\ InRange(f[2], 0, 1)
    \/ Len(f) = 2 /\ InRange(f[1], 1, 2) /\ IsDigit(f[2])
    \/ Len(f) = 2 /\ f[1] = "0" /\ InRange(f[2], 1, 9)
    \/ Len(f) = 1 /\ InRange(f[1], 1, 9)
    \/ Len(f) = 2 /\ f[1] = " " /\ InRange(f[2], 1, 9)

\* %H : 2[0-3]|[0-1]\d|\d
ReHour(f) ==
    \/ Len(f) = 2 /\ f[1] = "2" /\ InRange(f[2], 0, 3)
    \/ Len(f) = 2 /\ InRange(f[1], 0, 1) /\ IsDigit(f[2])
    \/ Len(f) = 1 /\ IsDigit(f[1])

\* %M : [0-5]\d|\d
ReMinute(f) ==
    \/ Len(f) = 2 /\ InRange(f[1], 0, 5) /\ IsDigit(f[2])
    \/ Len(f) = 1 /\ IsDigit(f[1])

\* %S : 6[0-1]|[0-5]\d|\d
ReSecond(f) ==
    \/ Len(f) = 2 /\ f[1] = "6" /\ InRange(f[2], 0, 1)
    \/ Len(f) = 2 /\ InRange(f[1], 0, 5) /\ IsDigit(f[2])
    \/ Len(f) = 1 /\ IsDigit(f[1])

\* A literal of the format, matched ignoring case.
LitIs(c, upper, lower) == c = upper \/ c = lower

\* The ways the regular expression matches the whole of s: the widths of the
\* five variable-width fields.  (A match that leaves characters over raises
\* "unconverted data remains", so only whole matches convert.)
Widths == {w \in [{"m", "d", "H", "M", "S"} -> {1, 2}] : TRUE}

MatchAt(s, w) ==
    LET pm == 6
        pd == pm + w["m"] + 1
        pH == pd + w["d"] + 1
        pM == pH + w["H"] + 1
        pS == pM + w["M"] + 1
        pZ == pS + w["S"]
    IN  /\ Len(s) = pZ
        /\ ReYear(SubSeq(s, 1, 4))
        /\ s[5] = "-"
        /\ ReMonth(SubSeq(s, pm, pm + w["m"] - 1))
        /\ s[pd - 1] = "-"
        /\ ReDay(SubSeq(s, pd, pd + w["d"] - 1))
        /\ LitIs(s[pH - 1], "T", "t")
        /\ ReHour(SubSeq(s, pH, pH + w["H"] - 1))
        /\ s[pM - 1] = ":"
        /\ ReMinute(SubSeq(s, pM, pM + w["M"] - 1))
        /\ s[pS - 1] = ":"
        /\ ReSecond(SubSeq(s, pS, pS + w["S"] - 1))
        /\ LitIs(s[pZ], "Z", "z")

FieldsAt(s, w) ==
    LET pm == 6
        pd == pm + w["m"] + 1
        pH == pd + w["d"] + 1
        pM == pH + w["H"] + 1
        pS == pM + w["M"] + 1
    IN  [year   |-> NumVal(SubSeq(s, 1, 4)),
         month  |-> NumVal(SubSeq(s, pm, pm + w["m"] - 1)),
         day    |-> NumVal(SubSeq(s, pd, pd + w["d"] - 1)),
         hour   |-> NumVal(SubSeq(s, pH, pH + w["H"] - 1)),
         minute |-> NumVal(SubSeq(s, pM, pM + w["M"] - 1)),
         second |-> NumVal(SubSeq(s, pS, pS + w["S"] - 1))]

IsLeap(y) == (y % 4 = 0) /\ ((y % 100 # 0) \/ (y % 400 = 0))

DaysInMonth(y, m) ==
    IF m = 2 THEN (IF IsLeap(y) THEN 29 ELSE 28)
    ELSE IF m \in {4, 6, 9, 11} THEN 30 ELSE 31

\* What datetime's constructor accepts.
ValidInstant(f) ==
    /\ f.year >= 1 /\ f.year <= 9999
    /\ f.month >= 1 /\ f.month <= 12
    /\ f.day >= 1 /\ f.day <= DaysInMonth(f.year, f.month)
    /\ f.hour >= 0 /\ f.hour <= 23
    /\ f.minute >= 0 /\ f.minute <= 59
    /\ f.second >= 0 /\ f.second <= 59

DateTime(f, tz) ==
    [t |-> "dt", year |-> f.year, month |-> f.month, day |-> f.day,
     hour |-> f.hour, minute |-> f.minute, second |-> f.second, tz |-> tz]

\* datetime.strptime(time, "%Y-%m-%dT%H:%M:%SZ"): a naive datetime or ValueError;
\* TypeError when time is not a str.
BuildDateTime(f) ==
    IF ValidInstant(f) THEN Ok(DateTime(f, "naive")) ELSE Raise("ValueError")

ConvertMatch(s, ms) ==
    IF ms = {} THEN Raise("ValueError")
    ELSE BuildDateTime(FieldsAt(s, CHOOSE w \in ms : TRUE))

strptime(time) ==
    IF time.t # "str" THEN Raise("TypeError")
    ELSE ConvertMatch(time.s, {w \in Widths : MatchAt(time.s, w)})

\* obj.replace(tzinfo=tz.tzutc())
replace_tzinfo(obj, tz) == [obj EXCEPT !.tz = tz]

\* to_dt (interface/ios.py): None passes through; a str is parsed and bound to UTC.
\* obj = obj.replace(tzinfo=dest); return obj  (a failure of strptime propagates)
BindUTC(obj) ==
    IF obj.kind = "raise" THEN obj ELSE Ok(replace_tzinfo(obj.val, "UTC"))

to_dt(time) ==
    IF time = None THEN Ok(time) ELSE BindUTC(strptime(time))

(***************************************************************************)
(* The record types of interface/ios.py.  A dataclass without defaults:    *)
(* Cls(<mapping unpacked>) raises TypeError unless the mapping's keys are exactly   *)
(* the declared fields, then __post_init__ normalises the date fields in   *)
(* the order it is written.                                                *)
(***************************************************************************)
Fields(cls) ==
    CASE cls = "IPSW" ->
           {"identifier", "buildid", "version", "url", "filesize", "sha1sum",
            "md5sum", "releasedate", "uploaddate", "signed"}
      [] cls = "FirmwareKeys" ->
           {"image", "filename", "kbag", "key", "iv", "date"}
      [] cls = "DeviceKeys" ->
           {"identifier", "buildid", "codename", "baseband",
            "updateramdiskexists", "restoreramdiskexists", "keys"}
      [] cls = "OTA" ->
           {"identifier", "buildid", "version", "url", "filesize",
            "prerequisitebuildid", "prerequisiteversion", "release_type",
            "uploaddate", "releasedate", "signed"}
      [] cls = "iDevice" ->
           {"name", "identifier", "boardconfig", "platform", "cpid", "bdid",
            "firmwares", "boards"}

\* The fields __post_init__ passes through to_dt, in its order.
PostInitDates(cls) ==
    CASE cls = "IPSW" -> <<"releasedate", "uploaddate">>
      [] cls = "FirmwareKeys" -> <<"date">>
      [] cls = "OTA" -> <<"releasedate", "uploaddate">>
      [] OTHER -> <<>>

\* __post_init__: self.<field> = to_dt(self.<field>) for each date field; the
\* first failure propagates.
RECURSIVE post_init(_, _)
AssignDate(f, dates, r) ==
    IF r.kind = "raise" THEN r
    ELSE post_init([f EXCEPT ![Head(dates)] = r.val], Tail(dates))

post_init(f, dates) ==
    IF dates = <<>> THEN Ok(f)
    ELSE AssignDate(f, dates, to_dt(f[Head(dates)]))

\* The instance, once __post_init__ has run (its failure propagates).
Instance(cls, r) == IF r.kind = "raise" THEN r ELSE Ok(Obj(cls, r.val))

\* Cls(<arg unpacked as keywords>)
Construct(cls, arg) ==
    IF arg.t # "map" THEN Raise("TypeError")
    ELSE IF DOMAIN arg.f # Fields(cls) THEN Raise("TypeError")
    ELSE Instance(cls, post_init(arg.f, PostInitDates(cls)))

\* In src/ipsw.py the name IPSW is the API class itself (the class statement
\* rebinds the imported dataclass's name), whose __init__ takes no keyword.
ConstructApiClass(arg) ==
    IF arg.t # "map" THEN Raise("TypeError")
    ELSE IF DOMAIN arg.f # {} THEN Raise("TypeError")
    ELSE Ok(Obj("pyapple.src.ipsw.IPSW", arg.f))

\* The elements a comprehension iterates: a list's elements; a dict's keys.
Iterate(data) ==
    IF data.t = "list" THEN Ok(data.l)
    ELSE IF data.t = "map"
    THEN Ok(IF DOMAIN data.f = {} THEN <<>> ELSE <<Str(<<"k">>)>>)
    ELSE IF data.t = "str" THEN Ok([i \in 1..Len(data.s) |-> Str(<<data.s[i]>>)])
    ELSE Raise("TypeError")

FirstRaise(rs) == rs[CHOOSE i \in 1..Len(rs) :
                        /\ rs[i].kind = "raise"
                        /\ \A j \in 1..(i - 1) : rs[j].kind # "raise"]

\* [Cls(<x unpacked>) for x in data]
\* The comprehension's list, or the first failure among its elements.
Collect(rs) ==
    IF \E i \in 1..Len(rs) : rs[i].kind = "raise" THEN FirstRaise(rs)
    ELSE Ok(List([i \in 1..Len(rs) |-> rs[i].val]))

ConstructElements(cls, it) ==
    IF it.kind = "raise" THEN it
    ELSE Collect([i \in 1..Len(it.val) |-> Construct(cls, it.val[i])])

ConstructEach(cls, data) == ConstructElements(cls, Iterate(data))

ConstructApiElements(it) ==
    IF it.kind = "raise" THEN it
    ELSE Collect([i \in 1..Len(it.val) |-> ConstructApiClass(it.val[i])])

ConstructEachApiClass(data) == ConstructApiElements(Iterate(data))

\* data[key]
GetItem(data, key) ==
    IF data.t # "map" THEN Raise("TypeError")
    ELSE IF key \notin DOMAIN data.f THEN Raise("KeyError")
    ELSE Ok(data.f[key])

\* data[key] = value, on a dict
SetItem(data, key, value) == Map([data.f EXCEPT ![key] = value])

(***************************************************************************)
(* The operations.  Each takes the decoded payload object the Transport    *)
(* returned and yields [out |-> the outcome, data |-> the payload object   *)
(* as the operation leaves it].                                            *)
(***************************************************************************)
\* data[key] = nested; return Outer(<data unpacked>): the tail shared by the
\* composite operations.  A failure of the comprehension leaves data as it was.
StoreAndBuild(outer, data, key, nested) ==
    IF nested.kind = "raise" THEN [out |-> nested, data |-> data]
    ELSE [out |-> Construct(outer, SetItem(data, key, nested.val)),
          data |-> SetItem(data, key, nested.val)]

\* [Inner(<x unpacked>) for x in data[key]], data[key] a failure when the
\* subscript raised.
NestedList(inner, item) ==
    IF item.kind = "raise" THEN item ELSE ConstructEach(inner, item.val)

NestedApiList(item) ==
    IF item.kind = "raise" THEN item ELSE ConstructEachApiClass(item.val)

\* HALFTIME.device (client.py)
device(data) ==
    StoreAndBuild("iDevice", data, "firmwares",
                  NestedList("IPSW", GetItem(data, "firmwares")))

\* HALFTIME.ipsw
ipsw(data) == [out |-> Construct("IPSW", data), data |-> data]

\* HALFTIME.ipsw_version
ipsw_version(data) == [out |-> ConstructEach("IPSW", data), data |-> data]

\* HALFTIME.keys_device: each element becomes a DeviceKeys; its "keys" list is
\* handed to the record as it came.
keys_device(data) == [out |-> ConstructEach("DeviceKeys", data), data |-> data]

\* HALFTIME.keys
keys(data) ==
    StoreAndBuild("DeviceKeys", data, "keys",
                  NestedList("FirmwareKeys", GetItem(data, "keys")))

\* HALFTIME.ota
ota(data) == [out |-> Construct("OTA", data), data |-> data]

\* HALFTIME.ota_version
ota_version(data) == [out |-> ConstructEach("OTA", data), data |-> data]

\* HALFTIME.available_macos: the collaborator's list, as it came.
available_macos(data) == [out |-> Ok(data), data |-> data]

\* HALFTIME.get_macos: the collaborator's list, as it came.
get_macos(data) == [out |-> Ok(data), data |-> data]

\* IPSW.device of src/ipsw.py: the comprehension calls the API class.
src_device(data) ==
    StoreAndBuild("iDevice", data, "firmwares",
                  NestedApiList(GetItem(data, "firmwares")))

\* IPSW.keys of src/ipsw.py
src_keys(data) ==
    StoreAndBuild("DeviceKeys", data, "keys",
                  NestedList("FirmwareKeys", GetItem(data, "keys")))

\* IPSW.ota_docs of src/ipsw.py: the text is printed; the function ends without
\* a return statement, so the call evaluates to None.
ota_docs(data) == [out |-> Ok(None), data |-> data]

ClientOps == {"device", "ipsw", "ipsw_version", "keys_device", "keys", "ota",
              "ota_version", "available_macos", "get_macos"}

SrcOps == {"IPSW.device", "IPSW.keys", "IPSW.ota_docs"}

\* The Transport raised instead of returning a payload.
TransportFails == [t |-> "fail"]

\* The body of an operation after its await of the Transport.
Normalize(name, data) ==
    CASE name = "device" -> device(data)
      [] name = "ipsw" -> ipsw(data)
      [] name = "ipsw_version" -> ipsw_version(data)
      [] name = "keys_device" -> keys_device(data)
      [] name = "keys" -> keys(data)
      [] name = "ota" -> ota(data)
      [] name = "ota_version" -> ota_version(data)
      [] name = "available_macos" -> available_macos(data)
      [] name = "get_macos" -> get_macos(data)
      [] name = "IPSW.device" -> src_device(data)
      [] name = "IPSW.keys" -> src_keys(data)
      [] name = "IPSW.ota_docs" -> ota_docs(data)

\* One run of the operation's coroutine: await the Transport (whose failure
\* propagates unchanged), then the body.
RunOp(name, resp) ==
    IF resp = TransportFails
    THEN [out |-> Raise("TransportError"), data |-> resp]
    ELSE Normalize(name, resp)

\* What each operation asks the Transport for: the endpoint's path segments
\* with the arguments substituted verbatim, and the payload shape it names.
Request(name, a, b) ==
    CASE name = "device" -> [endpoint |-> <<"device", a>>, return_type |-> "unset"]
      [] name = "ipsw" -> [endpoint |-> <<"ipsw", a, b>>, return_type |-> "unset"]
      [] name = "ipsw_version" -> [endpoint |-> <<"ipsw", a>>, return_type |-> "unset"]
      [] name = "keys_device" -> [endpoint |-> <<"keys", "device", a>>, return_type |-> "unset"]
      [] name = "keys" -> [endpoint |-> <<"keys", "ipsw", a, b>>, return_type |-> "unset"]
      [] name = "ota" -> [endpoint |-> <<"ota", a, b>>, return_type |-> "unset"]
      [] name = "ota_version" -> [endpoint |-> <<"ota", a>>, return_type |-> "unset"]
      [] name = "available_macos" -> [endpoint |-> <<"swscan", "get_products", a>>, return_type |-> "unset"]
      [] name = "get_macos" -> [endpoint |-> <<"swscan", "get_package", a, b>>, return_type |-> "unset"]
      [] name = "IPSW.device" -> [endpoint |-> <<"device", a>>, return_type |-> "json"]
      [] name = "IPSW.keys" -> [endpoint |-> <<"keys", "ipsw", a, b>>, return_type |-> "json"]
      [] name = "IPSW.ota_docs" -> [endpoint |-> <<"ota", "documentation", a, b>>, return_type |-> "text"]

(***************************************************************************)
(* Inputs: the payloads the Transport may hand back, and the timestamp     *)
(* values handed to to_dt.                                                 *)
(***************************************************************************)
MaxList == 2

MaxInvocations == 2

S(c) == Str(<<c>>)

Seqs(set, n) == UNION {[1..k -> set] : k \in 0..n}

Without(m, k) == Map([x \in (DOMAIN m.f) \ {k} |-> m.f[x]])

DateGood ==
    Str(<<"2", "0", "2", "1", "-", "0", "9", "-", "2", "0", "T",
          "1", "8", ":", "0", "0", ":", "0", "0", "Z">>)

DateOnly == Str(<<"2", "0", "2", "1", "-", "0", "9", "-", "2", "0">>)

DateVals == {None, DateGood, DateOnly}

FirmwareMap(rd, ud) ==
    Map([identifier |-> S("i"), buildid |-> S("b"), version |-> S("v"),
         url |-> S("u"), filesize |-> PyInt(1000), sha1sum |-> S("a"),
         md5sum |-> S("m"), releasedate |-> rd, uploaddate |-> ud,
         signed |-> Bool(TRUE)])

OTAMap(rd, ud) ==
    Map([identifier |-> S("i"), buildid |-> S("b"), version |-> S("v"),
         url |-> S("u"), filesize |-> PyInt(1000),
         prerequisitebuildid |-> S("p"), prerequisiteversion |-> S("q"),
         release_type |-> S("r"), uploaddate |-> ud, releasedate |-> rd,
         signed |-> Bool(TRUE)])

KeyMap(d) ==
    Map([image |-> S("g"), filename |-> S("f"), kbag |-> S("k"),
         key |-> S("y"), iv |-> S("x"), date |-> d])

KeySetMap(bb, ks) ==
    Map([identifier |-> S("i"), buildid |-> S("b"), codename |-> S("c"),
         baseband |-> bb, updateramdiskexists |-> Bool(TRUE),
         restoreramdiskexists |-> Bool(FALSE), keys |-> ks])

DeviceMap(fws, boards) ==
    Map([name |-> S("n"), identifier |-> S("i"), boardconfig |-> S("c"),
         platform |-> S("p"), cpid |-> S("1"), bdid |-> S("2"),
         firmwares |-> fws, boards |-> boards])

FirmwareSamples ==
    {FirmwareMap(None, DateGood), FirmwareMap(DateOnly, None),
     Without(FirmwareMap(None, DateGood), "releasedate")}

OTASamples ==
    {OTAMap(None, DateGood), OTAMap(DateOnly, None),
     Without(OTAMap(None, DateGood), "uploaddate")}

KeySamples == {KeyMap(DateGood), KeyMap(None), Without(KeyMap(None), "date")}

KeySetSamples ==
    {KeySetMap(None, List(<<KeyMap(DateGood)>>)), KeySetMap(S("b"), List(<<>>)),
     Without(KeySetMap(None, List(<<>>)), "keys")}

Payloads(name) ==
    CASE name = "ipsw" ->
           {FirmwareMap(rd, ud) : rd \in DateVals, ud \in DateVals}
           \cup {Without(FirmwareMap(None, DateGood), k) :
                    k \in {"releasedate", "uploaddate", "identifier"}}
      [] name = "ota" ->
           {OTAMap(rd, ud) : rd \in DateVals, ud \in DateVals}
           \cup {Without(OTAMap(None, DateGood), k) :
                    k \in {"releasedate", "uploaddate", "identifier"}}
      [] name = "ipsw_version" -> {List(l) : l \in Seqs(FirmwareSamples, MaxList)}
      [] name = "ota_version" -> {List(l) : l \in Seqs(OTASamples, MaxList)}
      [] name = "keys_device" -> {List(l) : l \in Seqs(KeySetSamples, MaxList)}
      [] name \in {"device", "IPSW.device"} ->
           {DeviceMap(List(l), List(<<>>)) : l \in Seqs(FirmwareSamples, MaxList)}
           \cup {Without(DeviceMap(List(<<>>), List(<<>>)), k) :
                    k \in {"firmwares", "boards", "name"}}
           \cup {DeviceMap(None, List(<<>>))}
      [] name \in {"keys", "IPSW.keys"} ->
           {KeySetMap(bb, List(l)) :
                bb \in {None, S("b")}, l \in Seqs(KeySamples, MaxList)}
           \cup {Without(KeySetMap(None, List(<<>>)), k) :
                    k \in {"baseband", "keys", "identifier"}}
      [] name \in {"available_macos", "get_macos"} ->
           {List(<<>>), List(<<Map([product |-> S("p")])>>)}
      [] name = "IPSW.ota_docs" -> {Str(<<"d", "o", "c">>), Str(<<>>)}

Identifiers == {"iPhone12,1", "iPad8,1"}

Versions == {"19A5297e", "15.0"}

\* Timestamp strings: every combination of these field spellings.
YearTokens == {<<"2", "0", "2", "1">>, <<"2", "0", "2", "0">>, <<"0", "2", "1">>}

MonthTokens == {<<"0", "9">>, <<"9">>, <<"0", "2">>, <<"1", "3">>}

DayTokens == {<<"2", "0">>, <<"2">>, <<" ", "2">>, <<"3", "0">>, <<"2", "9">>}

SepTokens == {<<"T">>, <<"t">>, <<" ">>}

HourTokens == {<<"1", "8">>, <<"8">>, <<"2", "4">>}

SecondTokens == {<<"0", "0">>, <<"6", "0">>}

EndTokens == {<<"Z">>, <<"z">>, <<>>, <<"Z", "Z">>}

DateInputs ==
    {None, DateOnly, Str(<<>>)}
    \cup {Str(y \o <<"-">> \o m \o <<"-">> \o d \o sep \o h \o <<":", "0", "0", ":">> \o sec \o z) :
            y \in YearTokens, m \in MonthTokens, d \in DayTokens, sep \in SepTokens,
            h \in HourTokens, sec \in SecondTokens, z \in EndTokens}

(***************************************************************************)
(* NormSpec: the Transport holds one response; the operation is invoked    *)
(* against it, once or again.  On a further invocation the                 *)
(* Transport either hands back the same payload object (a cached or        *)
(* canned response) or decodes an equal one afresh.                        *)
(***************************************************************************)
NormOps == ClientOps \cup SrcOps

NormIdle ==
    /\ opcall = [name |-> "ipsw", a |-> "iPhone12,1", b |-> "19A5297e"]
    /\ payload = TransportFails
    /\ sent = TransportFails
    /\ request = <<>>
    /\ outcome = Idle
    /\ prev = Idle
    /\ ncalls = 0
    /\ sameObject = FALSE

FacadeIdle ==
    /\ nLoops = 0
    /\ loopRunning = <<>>
    /\ loopClosed = <<>>
    /\ loopDriver = <<>>
    /\ threadLoop = <<>>
    /\ clients = <<>>
    /\ calls = <<>>
    /\ threadCall = <<>>

DateIdle == dtIn = None /\ dtOut = Idle

NormInit ==
    /\ FacadeIdle
    /\ DateIdle
    /\ \E name \in NormOps, a \in Identifiers, b \in Versions :
          /\ opcall = [name |-> name, a |-> a, b |-> b]
          /\ \E p \in Payloads(name) \cup {TransportFails} :
                payload = p /\ sent = p
    /\ request = <<>>
    /\ outcome = Idle
    /\ prev = Idle
    /\ ncalls = 0
    /\ sameObject = FALSE

\* One invocation of the operation, run to its end.
Invoke(same) ==
    /\ ncalls < MaxInvocations
    /\ same => ncalls > 0
    /\ request' = Request(opcall.name, opcall.a, opcall.b)
    /\ outcome' = RunOp(opcall.name, IF same THEN payload ELSE sent).out
    /\ payload' = RunOp(opcall.name, IF same THEN payload ELSE sent).data
    /\ prev' = outcome
    /\ ncalls' = ncalls + 1
    /\ sameObject' = same
    /\ UNCHANGED <<opcall, sent, facadeVars, dateVars>>

InvokeSame == Invoke(TRUE)

InvokeFresh == Invoke(FALSE)

NormNext == InvokeSame \/ InvokeFresh

NormSpec == NormInit /\ [][NormNext]_vars

(***************************************************************************)
(* DateSpec: to_dt applied to one value.                                   *)
(***************************************************************************)
DateInit ==
    /\ FacadeIdle
    /\ NormIdle
    /\ dtIn \in DateInputs
    /\ dtOut = Idle

ApplyToDt ==
    /\ dtOut = Idle
    /\ dtOut' = to_dt(dtIn)
    /\ UNCHANGED <<dtIn, facadeVars, normVars>>

DateNext == ApplyToDt

DateSpec == DateInit /\ [][DateNext]_vars

(***************************************************************************)
(* Spec: the dual-mode facade (client.py, class Client).                   *)
(*                                                                         *)
(* The environment is asyncio as the callers use it: a thread may install  *)
(* a new current loop, drive any loop that is idle and open (run_forever,  *)
(* run_until_complete(main())), or enter asyncio.run, which constructs a   *)
(* loop of its own, drives it, closes it at the end and leaves the thread  *)
(* without a current loop.  User code runs on a thread either at top level *)
(* or inside a coroutine of the loop the thread is driving.                *)
(***************************************************************************)
Threads == {"t1", "t2"}

MaxLoops == 2

MaxClients == 1

MaxCalls == 2

LoopIds == 1..nLoops

\* events._get_running_loop() is not None, on thread t
ThreadInLoop(t) == \E l \in LoopIds : loopRunning[l] = t

RunningLoop(t) == CHOOSE l \in LoopIds : loopRunning[l] = t

\* loop.is_running()
is_running(l) == loopRunning[l] # "idle"

\* asyncio.get_event_loop() on thread t: the running loop, else the thread's
\* current loop; 0 stands for its RuntimeError when the thread has none.
get_event_loop(t) ==
    IF ThreadInLoop(t) THEN RunningLoop(t) ELSE threadLoop[t]

\* The thread is free to run user code (it is not inside a blocking call).
CanAct(t) == threadCall[t] = 0

\* asyncio.iscoroutinefunction(attribute), for the attribute names of a Client:
\* the async defs of HALFTIME.  Any other name (loop, SWSCAN) passes through.
iscoroutinefunction(name) == name \in ClientOps

\* A plausible slip: a loop of its own for every call.
RunCoroutineLoopFresh(c) == [loop |-> nLoops + 1, constructed |-> 1]

\* The loop __run_coroutine consults and drives, and the loops it constructs
\* on the way: self.loop, acquired once in __init__; none.
RunCoroutineLoop(c) == [loop |-> clients[c].loop, constructed |-> 0]

\* What the Transport answers a call of the facade with.
FacadeResponses(name) ==
    {TransportFails} \cup
    CASE name = "device" ->
           {DeviceMap(List(<<FirmwareMap(None, DateGood)>>), List(<<>>))}
      [] name = "ipsw" -> {FirmwareMap(None, DateGood), FirmwareMap(DateOnly, None)}
      [] name = "ipsw_version" -> {List(<<FirmwareMap(None, DateGood)>>)}
      [] name = "keys_device" -> {List(<<KeySetMap(None, List(<<>>))>>)}
      [] name = "keys" -> {KeySetMap(None, List(<<KeyMap(DateGood)>>))}
      [] name = "ota" -> {OTAMap(None, DateGood)}
      [] name = "ota_version" -> {List(<<OTAMap(None, DateGood)>>)}
      [] name \in {"available_macos", "get_macos"} ->
           {List(<<Map([product |-> S("p")])>>)}

\* The operations called through the facade here: a composite one, a
\* single-record one and a catalog one.  (__run_coroutine never looks at which
\* coroutine function it was handed.)
FacadeOps == {"device", "ipsw", "get_macos"}

AllResponses == UNION {FacadeResponses(name) : name \in FacadeOps}

FacadeInit ==
    /\ nLoops = 0
    /\ loopRunning = <<>>
    /\ loopClosed = <<>>
    /\ loopDriver = <<>>
    /\ threadLoop = [t \in Threads |-> 0]
    /\ clients = <<>>
    /\ calls = <<>>
    /\ threadCall = [t \in Threads |-> 0]
    /\ NormIdle
    /\ DateIdle

\* asyncio.set_event_loop(asyncio.new_event_loop()) at top level of thread t
\* (what get_event_loop does by itself on a main thread that has none yet).
NewEventLoop(t) ==
    /\ CanAct(t) /\ ~ThreadInLoop(t)
    /\ nLoops < MaxLoops
    /\ nLoops' = nLoops + 1
    /\ loopRunning' = Append(loopRunning, "idle")
    /\ loopClosed' = Append(loopClosed, FALSE)
    /\ loopDriver' = Append(loopDriver, "none")
    /\ threadLoop' = [threadLoop EXCEPT ![t] = nLoops + 1]
    /\ UNCHANGED <<clients, calls, threadCall, normVars, dateVars>>

\* asyncio.run(main()) entered on thread t.
AsyncioRun(t) ==
    /\ CanAct(t) /\ ~ThreadInLoop(t)
    /\ nLoops < MaxLoops
    /\ nLoops' = nLoops + 1
    /\ loopRunning' = Append(loopRunning, t)
    /\ loopClosed' = Append(loopClosed, FALSE)
    /\ loopDriver' = Append(loopDriver, "asyncio.run")
    /\ threadLoop' = [threadLoop EXCEPT ![t] = nLoops + 1]
    /\ UNCHANGED <<clients, calls, threadCall, normVars, dateVars>>

\* asyncio.run returns: its loop is closed and the thread has no current loop.
AsyncioRunEnd(t) ==
    /\ CanAct(t) /\ ThreadInLoop(t)
    /\ loopDriver[RunningLoop(t)] = "asyncio.run"
    /\ loopRunning' = [loopRunning EXCEPT ![RunningLoop(t)] = "idle"]
    /\ loopClosed' = [loopClosed EXCEPT ![RunningLoop(t)] = TRUE]
    /\ loopDriver' = [loopDriver EXCEPT ![RunningLoop(t)] = "none"]
    /\ threadLoop' = [threadLoop EXCEPT ![t] = 0]
    /\ UNCHANGED <<nLoops, clients, calls, threadCall, normVars, dateVars>>

\* Thread t drives loop l: l.run_forever() or l.run_until_complete(main()).
RunForever(t, l) ==
    /\ CanAct(t) /\ ~ThreadInLoop(t)
    /\ ~loopClosed[l] /\ ~is_running(l)
    /\ loopRunning' = [loopRunning EXCEPT ![l] = t]
    /\ loopDriver' = [loopDriver EXCEPT ![l] = "run_forever"]
    /\ UNCHANGED <<nLoops, loopClosed, threadLoop, clients, calls, threadCall,
                   normVars, dateVars>>

\* The loop thread t drives is stopped; it stays open.
StopLoop(t) ==
    /\ CanAct(t) /\ ThreadInLoop(t)
    /\ loopDriver[RunningLoop(t)] = "run_forever"
    /\ loopRunning' = [loopRunning EXCEPT ![RunningLoop(t)] = "idle"]
    /\ loopDriver' = [loopDriver EXCEPT ![RunningLoop(t)] = "none"]
    /\ UNCHANGED <<nLoops, loopClosed, threadLoop, clients, calls, threadCall,
                   normVars, dateVars>>

\* Client.__init__ on thread t: self.loop = asyncio.get_event_loop().  (When
\* get_event_loop raises, no Client comes to exist.)
ClientInit(t) ==
    /\ CanAct(t)
    /\ Len(clients) < MaxClients
    /\ get_event_loop(t) # 0
    /\ clients' = Append(clients, [loop |-> get_event_loop(t), acquired |-> 1])
    /\ UNCHANGED <<nLoops, loopRunning, loopClosed, loopDriver, threadLoop, calls,
                   threadCall, normVars, dateVars>>

\* The Transport has not been asked yet.
Unasked == [t |-> "unasked"]

NewCall(c, t, name, l, running) ==
    [client |-> c, thread |-> t, name |-> name, resp |-> Unasked,
     inLoop |-> ThreadInLoop(t), loop |-> l,
     state |-> IF running THEN "pending" ELSE "entering",
     returned |-> IF running THEN "coroutine" ELSE "nothing",
     drove |-> 0, fetches |-> 0, out |-> Idle]

\* client.<name>(...) on thread t: __getattribute__ wraps the coroutine
\* function in __run_coroutine, which reads self.loop.is_running(): when the
\* loop is running the coroutine object is returned at once, otherwise the
\* thread goes on to run_until_complete.
CallOperation(c, t, name) ==
    /\ CanAct(t)
    /\ iscoroutinefunction(name)
    /\ Len(calls) < MaxCalls
    /\ nLoops + RunCoroutineLoop(c).constructed <= MaxLoops
    /\ nLoops' = nLoops + RunCoroutineLoop(c).constructed
    /\ loopRunning' = IF RunCoroutineLoop(c).constructed = 0 THEN loopRunning
                      ELSE Append(loopRunning, "idle")
    /\ loopClosed' = IF RunCoroutineLoop(c).constructed = 0 THEN loopClosed
                     ELSE Append(loopClosed, FALSE)
    /\ loopDriver' = IF RunCoroutineLoop(c).constructed = 0 THEN loopDriver
                     ELSE Append(loopDriver, "none")
    /\ clients' = [clients EXCEPT ![c].acquired = @ + RunCoroutineLoop(c).constructed]
    /\ calls' = Append(calls,
                       NewCall(c, t, name, RunCoroutineLoop(c).loop,
                               loopRunning'[RunCoroutineLoop(c).loop] # "idle"))
    /\ threadCall' = IF loopRunning'[RunCoroutineLoop(c).loop] # "idle" THEN threadCall
                     ELSE [threadCall EXCEPT ![t] = Len(calls) + 1]
    /\ UNCHANGED <<threadLoop, normVars, dateVars>>

\* loop.run_until_complete(coroutine) begins on thread t: RuntimeError when
\* the loop is closed, is already running, or another loop is running on the
\* thread; otherwise thread t drives the loop.
RunUntilComplete(t) ==
    /\ threadCall[t] # 0
    /\ calls[threadCall[t]].state = "entering"
    /\ IF \/ loopClosed[calls[threadCall[t]].loop]
          \/ is_running(calls[threadCall[t]].loop)
          \/ ThreadInLoop(t)
       THEN /\ calls' = [calls EXCEPT ![threadCall[t]].state = "done",
                                      ![threadCall[t]].returned = "raise",
                                      ![threadCall[t]].out = Raise("RuntimeError")]
            /\ threadCall' = [threadCall EXCEPT ![t] = 0]
            /\ UNCHANGED <<loopRunning, loopDriver>>
       ELSE /\ calls' = [calls EXCEPT ![threadCall[t]].state = "driving",
                                      ![threadCall[t]].drove = calls[threadCall[t]].loop]
            /\ loopRunning' = [loopRunning EXCEPT ![calls[threadCall[t]].loop] = t]
            /\ loopDriver' = [loopDriver EXCEPT ![calls[threadCall[t]].loop] = "client"]
            /\ UNCHANGED threadCall
    /\ UNCHANGED <<nLoops, loopClosed, threadLoop, clients, normVars, dateVars>>

\* The driven loop runs the operation to its end: the Transport is invoked
\* and answers resp, the result is returned or the operation's failure raised,
\* the loop stops.
CompleteBlocking(t, resp) ==
    /\ threadCall[t] # 0
    /\ calls[threadCall[t]].state = "driving"
    /\ resp \in FacadeResponses(calls[threadCall[t]].name)
    /\ calls' = [calls EXCEPT
                   ![threadCall[t]].state = "done",
                   ![threadCall[t]].fetches = @ + 1,
                   ![threadCall[t]].resp = resp,
                   ![threadCall[t]].out = RunOp(calls[threadCall[t]].name, resp).out,
                   ![threadCall[t]].returned =
                       IF RunOp(calls[threadCall[t]].name, resp).out.kind = "ok"
                       THEN "result" ELSE "raise"]
    /\ loopRunning' = [loopRunning EXCEPT ![calls[threadCall[t]].loop] = "idle"]
    /\ loopDriver' = [loopDriver EXCEPT ![calls[threadCall[t]].loop] = "none"]
    /\ threadCall' = [threadCall EXCEPT ![t] = 0]
    /\ UNCHANGED <<nLoops, loopClosed, threadLoop, clients, normVars, dateVars>>

\* The caller awaits the coroutine it was handed, inside the loop its thread
\* is driving: the operation runs there, the Transport answering resp.
AwaitCoroutine(k, resp) ==
    /\ calls[k].state = "pending"
    /\ CanAct(calls[k].thread)
    /\ ThreadInLoop(calls[k].thread)
    /\ resp \in FacadeResponses(calls[k].name)
    /\ calls' = [calls EXCEPT
                   ![k].state = "done",
                   ![k].fetches = @ + 1,
                   ![k].resp = resp,
                   ![k].out = RunOp(calls[k].name, resp).out]
    /\ UNCHANGED <<nLoops, loopRunning, loopClosed, loopDriver, threadLoop, clients,
                   threadCall, normVars, dateVars>>

Next ==
    \/ \E t \in Threads : NewEventLoop(t)
    \/ \E t \in Threads : AsyncioRun(t)
    \/ \E t \in Threads : AsyncioRunEnd(t)
    \/ \E t \in Threads, l \in LoopIds : RunForever(t, l)
    \/ \E t \in Threads : StopLoop(t)
    \/ \E t \in Threads : ClientInit(t)
    \/ \E c \in 1..Len(clients), t \in Threads, name \in FacadeOps :
          CallOperation(c, t, name)
    \/ \E t \in Threads : RunUntilComplete(t)
    \/ \E t \in Threads, resp \in AllResponses : CompleteBlocking(t, resp)
    \/ \E k \in 1..Len(calls), resp \in AllResponses : AwaitCoroutine(k, resp)

Spec == FacadeInit /\ [][Next]_vars

(***************************************************************************)
(* Claims about the facade (Spec).                                         *)
(***************************************************************************)
CallIds == 1..Len(calls)

\* The call expression has handed something back to its caller.
Returned(k) == calls[k].returned # "nothing"

\* What the operation itself yields on the Transport's answer.
OperationOutcome(k) == RunOp(calls[k].name, calls[k].resp).out

\* C1: a call made from a thread on which no loop is running returns the
\* finished result or raises the operation's failure, never a coroutine,
\* whatever thread constructed the Client and whatever drives its loop.
C1_OutsideSchedulerFinished ==
    \A k \in CallIds :
        (~calls[k].inLoop /\ Returned(k)) =>
            /\ calls[k].returned \in {"result", "raise"}
            /\ calls[k].out = OperationOutcome(k)

\* C2: a call made from a thread whose loop is running returns a pending
\* coroutine at once: it does not block, raise or drive a loop; the Transport
\* is not invoked before the coroutine is awaited and exactly once after.
C2_InsideSchedulerPending ==
    \A k \in CallIds :
        calls[k].inLoop =>
            /\ Returned(k) => calls[k].returned = "coroutine"
            /\ calls[k].state # "driving" /\ calls[k].drove = 0
            /\ calls[k].state = "pending" => calls[k].fetches = 0
            /\ calls[k].state = "done" => calls[k].fetches = 1

\* C3: the two modes agree: outside a scheduler the call yields the finished
\* outcome of the operation directly; inside one it yields a coroutine whose
\* await yields that same outcome (an equal result, or the same failure).
C3_DualModeEquivalence ==
    /\ \A k \in CallIds :
          /\ (~calls[k].inLoop /\ Returned(k)) =>
                (calls[k].returned # "coroutine" /\ calls[k].out = OperationOutcome(k))
          /\ calls[k].inLoop =>
                /\ Returned(k) => calls[k].returned = "coroutine"
                /\ calls[k].state = "done" => calls[k].out = OperationOutcome(k)
    /\ \A j, k \in CallIds :
          (/\ calls[j].state = "done" /\ calls[k].state = "done"
           /\ ~calls[j].inLoop /\ calls[k].inLoop
           /\ calls[j].name = calls[k].name /\ calls[j].resp = calls[k].resp) =>
              calls[j].out = calls[k].out

\* A blocking call: one for which the Client drove a loop to completion.
Blocking(k) == calls[k].state = "done" /\ calls[k].drove # 0

\* C4: blocking calls through a Client construct no loop: the Client acquired
\* one loop, at construction; every blocking call is driven by that loop, the
\* next by the same instance as the one before; and the loop is still open
\* for the calls that follow.
C4_SchedulerReuse ==
    /\ \A c \in 1..Len(clients) : clients[c].acquired = 1
    /\ \A k \in CallIds :
          calls[k].drove # 0 =>
              /\ calls[k].drove = clients[calls[k].client].loop
              /\ ~loopClosed[calls[k].drove]
    /\ \A j, k \in CallIds :
          (calls[j].client = calls[k].client /\ calls[j].drove # 0 /\ calls[k].drove # 0) =>
              calls[j].drove = calls[k].drove

\* Two blocking calls made one after the other on one thread through one
\* Client, both finished with a result, the loops constructed being just the
\* one the Client acquired.
C4_Witness ==
    /\ Len(calls) >= 2
    /\ Blocking(1) /\ Blocking(2)
    /\ calls[1].client = calls[2].client
    /\ calls[1].thread = calls[2].thread
    /\ calls[1].out.kind = "ok" /\ calls[2].out.kind = "ok"
    /\ calls[1].drove = calls[2].drove
    /\ nLoops = 1

(***************************************************************************)
(* Claims about the normalisation (DateSpec, NormSpec).                    *)
(***************************************************************************)
\* The format YYYY-MM-DDTHH:MM:SSZ read by position, as the specification
\* writes it: twenty characters, two-digit fields, upper-case T and Z, naming
\* a time that exists.
ExactFields(s) ==
    [year   |-> NumVal(SubSeq(s, 1, 4)),   month  |-> NumVal(SubSeq(s, 6, 7)),
     day    |-> NumVal(SubSeq(s, 9, 10)),  hour   |-> NumVal(SubSeq(s, 12, 13)),
     minute |-> NumVal(SubSeq(s, 15, 16)), second |-> NumVal(SubSeq(s, 18, 19))]

ExactForm(s) ==
    /\ Len(s) = 20
    /\ \A i \in {1, 2, 3, 4, 6, 7, 9, 10, 12, 13, 15, 16, 18, 19} : IsDigit(s[i])
    /\ s[5] = "-" /\ s[8] = "-" /\ s[11] = "T"
    /\ s[14] = ":" /\ s[17] = ":" /\ s[20] = "Z"
    /\ ValidInstant(ExactFields(s))

\* C5: to_dt returns None for None; for a string of exactly the form
\* YYYY-MM-DDTHH:MM:SSZ it returns that time bound to UTC; for every other
\* string it raises.
C5_DateNormalization ==
    dtOut # Idle =>
        /\ dtIn = None => dtOut = Ok(None)
        /\ (dtIn.t = "str" /\ ExactForm(dtIn.s)) =>
               dtOut = Ok(DateTime(ExactFields(dtIn.s), "UTC"))
        /\ (dtIn.t = "str" /\ ~ExactForm(dtIn.s)) => dtOut.kind = "raise"

TimestampOk(v) == v = None \/ (v.t = "dt" /\ v.tz = "UTC")

TypedList(v, cls, dates) ==
    \/ v = None
    \/ /\ v.t = "list"
       /\ \A i \in 1..Len(v.l) :
             /\ v.l[i].t = "obj"
             /\ v.l[i].cls = cls
             /\ \A d \in dates : TimestampOk(v.l[i].f[d])

RecordOk(o) ==
    /\ o.t = "obj"
    /\ CASE o.cls \in {"IPSW", "OTA"} ->
              TimestampOk(o.f.releasedate) /\ TimestampOk(o.f.uploaddate)
         [] o.cls = "FirmwareKeys" -> TimestampOk(o.f.date)
         [] o.cls = "DeviceKeys" -> TypedList(o.f.keys, "FirmwareKeys", {"date"})
         [] o.cls = "iDevice" ->
              TypedList(o.f.firmwares, "IPSW", {"releasedate", "uploaddate"})
         [] OTHER -> FALSE

ResultOk(v) ==
    IF v.t = "list" THEN \A i \in 1..Len(v.l) : RecordOk(v.l[i]) ELSE RecordOk(v)

TypedOps == {"device", "ipsw", "ipsw_version", "keys_device", "keys", "ota", "ota_version"}

\* C6: in the result of every operation, every nested firmware and key is a
\* typed record and every timestamp reachable from the result is None or a
\* UTC time.
C6_ResultFullyTyped ==
    (opcall.name \in TypedOps /\ outcome.kind = "ok") => ResultOk(outcome.val)

\* C7: no operation writes into the payload the Transport handed back: after
\* the operation returned or failed the payload is as it was.
C7_PayloadUntouched == ncalls > 0 => payload = sent

\* C8: two successive calls that are handed the same payload value both
\* succeed and yield equal records.
C8_Idempotent ==
    (ncalls = 2 /\ sameObject /\ prev.kind = "ok") =>
        (outcome.kind = "ok" /\ outcome = prev)

\* The fields a record type declares Optional[...] (interface/ios.py).
OptionalFields(cls) ==
    CASE cls \in {"IPSW", "OTA"} -> {"releasedate", "uploaddate"}
      [] cls = "FirmwareKeys" -> {"date"}
      [] cls = "DeviceKeys" -> {"baseband", "keys"}
      [] cls = "iDevice" -> {"firmwares", "boards"}

RecordClass(name) ==
    CASE name = "ipsw" -> "IPSW"
      [] name = "ota" -> "OTA"
      [] name = "keys" -> "DeviceKeys"
      [] name = "device" -> "iDevice"

Missing(name, m) == Fields(RecordClass(name)) \ DOMAIN m.f

\* A mapping that holds every required field of its record and leaves out at
\* least one optional field.
OmitsOnlyOptional(name, m) ==
    /\ name \in {"ipsw", "ota", "keys", "device"}
    /\ m.t = "map"
    /\ DOMAIN m.f \subseteq Fields(RecordClass(name))
    /\ Missing(name, m) # {}
    /\ Missing(name, m) \subseteq OptionalFields(RecordClass(name))

\* C9: a payload that holds all required fields and omits an optional one
\* normalises, and the omitted field is None in the record.
C9_OptionalFieldsDefault ==
    (ncalls = 1 /\ OmitsOnlyOptional(opcall.name, sent)) =>
        /\ outcome.kind = "ok"
        /\ \A k \in Missing(opcall.name, sent) : outcome.val.f[k] = None

\* C10: the OTA documentation operation asks for
\* /ota/documentation/{identifier}/{version} as text and delivers exactly the
\* text the Transport returned.
C10_DocsSurfaceText ==
    (opcall.name = "IPSW.ota_docs" /\ ncalls > 0 /\ sent # TransportFails) =>
        /\ request = [endpoint |-> <<"ota", "documentation", opcall.a, opcall.b>>,
                      return_type |-> "text"]
        /\ outcome = Ok(sent)

====
